---- MODULE Spec2Model ----
(***************************************************************************)
(* NFC vinyl jukebox (main.py): a Raspberry Pi Pico polls a PN532 tag      *)
(* reader and drives a DFPlayer Mini over UART.  The model covers the      *)
(* DFPlayerMini driver (_send_command, reset, set_volume, play_track),     *)
(* the two initializers and the polling loop of main().                    *)
(*                                                                         *)
(* Optional values (Python None / a value) are sequences of length 0 / 1.  *)
(* Byte strings are sequences of integers 0..255, text is TLA+ strings.    *)
(***************************************************************************)
EXTENDS Integers, Sequences, FiniteSets, TLC

VARIABLES pc, last_uid, uid, track, trace, calls, samples, trackMap

vars == <<pc, last_uid, uid, track, trace, calls, samples, trackMap>>

----------------------------------------------------------------------------
(* Bounds of the exploration *)

MaxPolls == 4

MaxCalls == 2

MaxLevelInput == 33

MaxTrackInput == 4

----------------------------------------------------------------------------
(* Configuration constants of main.py *)

DEFAULT_VOLUME == 20

RESET_SETTLE_MS == 1500

VOLUME_SETTLE_MS == 100

BOOT_DELAY_MS == 1000

DEBOUNCE_MS == 300

CMD_RESET == 12

CMD_SET_VOLUME == 6

CMD_PLAY_TRACK == 3

None == << >>

Some(v) == <<v>>

----------------------------------------------------------------------------
(* Tag identifiers the reader can report, and the configured track tables *)

UidA == <<4, 170, 187, 204, 221, 17>>

UidB == <<4, 51, 34, 17, 255, 85>>

UidC == <<222, 173, 190, 239>>

Uids == {UidA, UidB, UidC}

PollResults == {None} \cup {Some(u) : u \in Uids}

EmptyMap == [s \in {} |-> 0]

MapA3 == [s \in {"04AABBCCDD11"} |-> 3]

MapExample == [s \in {"04AABBCCDD11", "04332211FF55"} |->
                 IF s = "04AABBCCDD11" THEN 1 ELSE 2]

MapLow == [s \in {"04AABBCCDD11", "04332211FF55"} |->
             IF s = "04AABBCCDD11" THEN 0 ELSE -1]

TAG_TO_TRACK == {EmptyMap, MapA3, MapExample, MapLow}

----------------------------------------------------------------------------
(* uid_bytes_to_hex: two upper-case hex digits per byte, no separators *)

HexDigits == <<"0", "1", "2", "3", "4", "5", "6", "7",
               "8", "9", "A", "B", "C", "D", "E", "F">>

HexDigitsLower == <<"0", "1", "2", "3", "4", "5", "6", "7",
                    "8", "9", "a", "b", "c", "d", "e", "f">>

\* Variant: lower-case digits ("{:02x}").
Hex02XLower(b) == HexDigitsLower[(b \div 16) + 1] \o HexDigitsLower[(b % 16) + 1]

Hex02X(b) == HexDigits[(b \div 16) + 1] \o HexDigits[(b % 16) + 1]

RECURSIVE uid_bytes_to_hex(_)
uid_bytes_to_hex(uid_bytes) ==
    IF uid_bytes = << >> THEN ""
    ELSE Hex02X(Head(uid_bytes)) \o uid_bytes_to_hex(Tail(uid_bytes))

----------------------------------------------------------------------------
(* DFPlayerMini driver *)

\* Variant: the final "+ 1" is left out.
ChecksumNoPlusOne(version, length, cmd, feedback, high, low) ==
    65535 - (version + length + cmd + feedback + high + low)

Checksum(version, length, cmd, feedback, high, low) ==
    65535 - (version + length + cmd + feedback + high + low) + 1

\* Variant: the high byte is taken without "& 0xFF".
ParamHighNoMask(param) == param \div 256

ParamHigh(param) == (param \div 256) % 256

ParamLow(param) == param % 256

\* Variant: the parameter is sent low byte first.
send_commandLittleEndian(cmd, param) ==
    LET version  == 255
        length   == 6
        feedback == 0
        high     == ParamHigh(param)
        low      == ParamLow(param)
        checksum == Checksum(version, length, cmd, feedback, high, low)
        cs_high  == (checksum \div 256) % 256
        cs_low   == checksum % 256
    IN  <<126, version, length, cmd, feedback, low, high, cs_high, cs_low, 239>>

send_command(cmd, param) ==
    LET version  == 255
        length   == 6
        feedback == 0
        high     == ParamHigh(param)
        low      == ParamLow(param)
        checksum == Checksum(version, length, cmd, feedback, high, low)
        cs_high  == (checksum \div 256) % 256
        cs_low   == checksum % 256
    IN  <<126, version, length, cmd, feedback, high, low, cs_high, cs_low, 239>>

\* Variant: the lower clamp is missing.
ClampTrackNone(track_number) == track_number

\* Variant: the upper clamp is missing.
ClampVolumeNoUpper(level) == IF level < 0 THEN 0 ELSE level

ClampVolume(level) ==
    LET l1 == IF level < 0 THEN 0 ELSE level
    IN  IF l1 > 30 THEN 30 ELSE l1

ClampTrack(track_number) ==
    IF track_number < 1 THEN 1 ELSE track_number

\* bytes([...]) accepts only values in range(256) and raises ValueError
\* otherwise.
BytesValid(frame) == \A i \in 1 .. Len(frame) : frame[i] \in 0 .. 255

\* _send_command as an effect on the I/O trace: the frame is written to the
\* UART, unless building it raised.
send_command_io(cmd, param) ==
    LET frame == send_command(cmd, param)
    IN  IF BytesValid(frame)
        THEN << <<"write", frame>> >>
        ELSE << <<"raise", "ValueError">> >>

Raised(io) == io # << >> /\ io[Len(io)][1] = "raise"

\* Variant: reset returns without waiting for the module to settle.
reset_ioNoSettle == send_command_io(CMD_RESET, 0)

\* Effects of the three public methods, appended to the I/O trace in order.
reset_io ==
    LET w == send_command_io(CMD_RESET, 0)
    IN  IF Raised(w) THEN w ELSE w \o << <<"sleep", RESET_SETTLE_MS>> >>

set_volume_io(level) ==
    LET w == send_command_io(CMD_SET_VOLUME, ClampVolume(level))
    IN  IF Raised(w) THEN w ELSE w \o << <<"sleep", VOLUME_SETTLE_MS>> >>

play_track_io(track_number) ==
    send_command_io(CMD_PLAY_TRACK, ClampTrack(track_number))

----------------------------------------------------------------------------
(* Projections of the I/O trace *)

IsWrite(e) == e[1] = "write"

IsPrint(e) == e[1] = "print"

IsPoll(e) == e[1] = "poll"

IsSleep(e) == e[1] = "sleep"

RECURSIVE FramesOf(_)
FramesOf(t) ==
    IF t = << >> THEN << >>
    ELSE IF IsWrite(Head(t)) THEN <<Head(t)[2]>> \o FramesOf(Tail(t))
         ELSE FramesOf(Tail(t))

Uart == FramesOf(trace)

----------------------------------------------------------------------------
(* Program: initializers and the polling loop of main() *)

Init ==
    /\ pc = "init_pn532"
    /\ last_uid = None
    /\ uid = None
    /\ track = None
    /\ trace = << >>
    /\ calls = << >>
    /\ samples = << >>
    /\ trackMap \in TAG_TO_TRACK

FirmwareVersions == {None, Some(<<50, 1, 6, 7>>)}

init_pn532 ==
    /\ pc = "init_pn532"
    /\ \E fw \in FirmwareVersions :
         IF fw = None
         THEN /\ pc' = "fatal"
              /\ trace' = trace \o
                   << <<"print", "Initializing PN532 over I2C...", None>>,
                      <<"print", "Fatal error:",
                        "Could not detect PN532. Check wiring and I2C mode switch.">> >>
         ELSE /\ pc' = "init_dfplayer"
              /\ trace' = trace \o
                   << <<"print", "Initializing PN532 over I2C...", None>>,
                      <<"print", "PN532 detected", fw[1]>>,
                      <<"print", "PN532 SAM configuration done.", None>> >>
    /\ UNCHANGED <<last_uid, uid, track, calls, samples, trackMap>>

\* What the handler at the bottom of the file prints for an exception that
\* left main().
FatalError(io) == << <<"print", "Fatal error:", io[Len(io)][2]>> >>

\* Variant: the volume is set before the module is reset.
init_dfplayerVolumeFirst ==
    /\ pc = "init_dfplayer"
    /\ trace' = trace \o
         << <<"print", "Initializing DFPlayer Mini over UART...", None>>,
            <<"sleep", BOOT_DELAY_MS>> >>
         \o set_volume_io(DEFAULT_VOLUME) \o reset_io \o
         << <<"print", "DFPlayer ready at volume", DEFAULT_VOLUME>>,
            <<"print", "Waiting for NFC tags...", None>> >>
    /\ calls' = calls \o << <<"set_volume", DEFAULT_VOLUME>>, <<"reset", 0>> >>
    /\ pc' = "poll"
    /\ UNCHANGED <<last_uid, uid, track, samples, trackMap>>

init_dfplayer ==
    /\ pc = "init_dfplayer"
    /\ LET r  == reset_io
           v  == IF Raised(r) THEN << >> ELSE set_volume_io(DEFAULT_VOLUME)
           io == r \o v
       IN  /\ trace' = trace \o
                << <<"print", "Initializing DFPlayer Mini over UART...", None>>,
                   <<"sleep", BOOT_DELAY_MS>> >>
                \o io \o
                (IF Raised(io)
                 THEN FatalError(io)
                 ELSE << <<"print", "DFPlayer ready at volume", DEFAULT_VOLUME>>,
                         <<"print", "Waiting for NFC tags...", None>> >>)
           /\ calls' = calls \o << <<"reset", 0>> >> \o
                (IF Raised(r) THEN << >>
                 ELSE << <<"set_volume", DEFAULT_VOLUME>> >>)
           /\ pc' = IF Raised(io) THEN "fatal" ELSE "poll"
    /\ UNCHANGED <<last_uid, uid, track, samples, trackMap>>

\* uid = pn532.read_passive_target(timeout=0.5)
Poll ==
    /\ pc = "poll"
    /\ Len(samples) < MaxPolls
    /\ \E s \in PollResults :
         /\ uid' = s
         /\ samples' = Append(samples, s)
         /\ trace' = Append(trace, <<"poll", s>>)
    /\ pc' = "sampled"
    /\ UNCHANGED <<last_uid, track, calls, trackMap>>

\* Variant: the removal is reported but last_uid is not cleared.
NoCardKeepsLast ==
    /\ pc = "sampled"
    /\ uid = None
    /\ IF last_uid # None
       THEN trace' = Append(trace, <<"print", "Tag removed.", None>>)
       ELSE UNCHANGED trace
    /\ pc' = "poll"
    /\ UNCHANGED <<last_uid, uid, track, calls, samples, trackMap>>

\* if uid is None: ... continue
NoCard ==
    /\ pc = "sampled"
    /\ uid = None
    /\ IF last_uid # None
       THEN /\ trace' = Append(trace, <<"print", "Tag removed.", None>>)
            /\ last_uid' = None
       ELSE UNCHANGED <<trace, last_uid>>
    /\ pc' = "poll"
    /\ UNCHANGED <<uid, track, calls, samples, trackMap>>

\* Variant: the stored copy is compared by identity ("is"), never equal.
SameCardByIdentity(last, u) == FALSE

SameCardStillPresent(last, u) == last # None /\ u = last

\* if last_uid is not None and uid == last_uid: continue
SameCard ==
    /\ pc = "sampled"
    /\ uid # None
    /\ SameCardStillPresent(last_uid, uid)
    /\ pc' = "poll"
    /\ UNCHANGED <<last_uid, uid, track, trace, calls, samples, trackMap>>

\* Variant: the lookup result is tested for truth ("if not track").
LookupFalsy(map, uid_str) ==
    IF uid_str \in DOMAIN map /\ map[uid_str] # 0
    THEN Some(map[uid_str]) ELSE None

\* Variant: a default track is returned for unknown tags (".get(uid_str, 1)").
LookupDefaultTrack(map, uid_str) ==
    IF uid_str \in DOMAIN map THEN Some(map[uid_str]) ELSE Some(1)

Lookup(map, uid_str) ==
    IF uid_str \in DOMAIN map THEN Some(map[uid_str]) ELSE None

\* Variant: only the first four bytes of the UID are remembered.
NewCardStoresPrefix ==
    /\ pc = "sampled"
    /\ uid # None
    /\ ~(last_uid # None /\ uid = last_uid)
    /\ last_uid' = Some(SubSeq(uid[1], 1, 4))
    /\ LET uid_str == uid_bytes_to_hex(uid[1])
       IN  /\ trace' = Append(trace, <<"print", "Tag detected, UID =", uid_str>>)
           /\ track' = IF uid_str \in DOMAIN trackMap
                       THEN Some(trackMap[uid_str]) ELSE None
    /\ pc' = "lookup"
    /\ UNCHANGED <<uid, calls, samples, trackMap>>

\* Variant: the tag is remembered only when it has a track.
NewCardStoreIfMapped ==
    /\ pc = "sampled"
    /\ uid # None
    /\ ~(last_uid # None /\ uid = last_uid)
    /\ LET uid_str == uid_bytes_to_hex(uid[1])
       IN  /\ trace' = Append(trace, <<"print", "Tag detected, UID =", uid_str>>)
           /\ track' = IF uid_str \in DOMAIN trackMap
                       THEN Some(trackMap[uid_str]) ELSE None
           /\ last_uid' = IF uid_str \in DOMAIN trackMap
                          THEN Some(uid[1]) ELSE last_uid
    /\ pc' = "lookup"
    /\ UNCHANGED <<uid, calls, samples, trackMap>>

\* Variant: a tag swap first reports the removal of the previous tag.
NewCardWithRemoval ==
    /\ pc = "sampled"
    /\ uid # None
    /\ ~(last_uid # None /\ uid = last_uid)
    /\ last_uid' = Some(uid[1])
    /\ LET uid_str == uid_bytes_to_hex(uid[1])
           removed == IF last_uid # None
                      THEN << <<"print", "Tag removed.", None>> >>
                      ELSE << >>
       IN  /\ trace' = trace \o removed \o
                         << <<"print", "Tag detected, UID =", uid_str>> >>
           /\ track' = IF uid_str \in DOMAIN trackMap
                       THEN Some(trackMap[uid_str]) ELSE None
    /\ pc' = "lookup"
    /\ UNCHANGED <<uid, calls, samples, trackMap>>

\* New card detected: remember it, print its UID, look its track up
NewCard ==
    /\ pc = "sampled"
    /\ uid # None
    /\ ~SameCardStillPresent(last_uid, uid)
    /\ last_uid' = Some(uid[1])
    /\ LET uid_str == uid_bytes_to_hex(uid[1])
       IN  /\ trace' = Append(trace, <<"print", "Tag detected, UID =", uid_str>>)
           /\ track' = Lookup(trackMap, uid_str)
    /\ pc' = "lookup"
    /\ UNCHANGED <<uid, calls, samples, trackMap>>

\* Variant: the unmapped branch "continue"s, skipping the pause.
NoMappingNoPause ==
    /\ pc = "lookup"
    /\ track = None
    /\ trace' = Append(trace,
         <<"print", "No track mapped for this UID yet. Add it to TAG_TO_TRACK.", None>>)
    /\ pc' = "poll"
    /\ UNCHANGED <<last_uid, uid, track, calls, samples, trackMap>>

\* Variant: the table is indexed directly, so an unknown tag raises KeyError.
NoMappingRaises ==
    /\ pc = "lookup"
    /\ track = None
    /\ trace' = Append(trace, <<"print", "Fatal error:", None>>)
    /\ pc' = "fatal"
    /\ UNCHANGED <<last_uid, uid, track, calls, samples, trackMap>>

\* if track is None: print(...)
NoMapping ==
    /\ pc = "lookup"
    /\ track = None
    /\ trace' = Append(trace,
         <<"print", "No track mapped for this UID yet. Add it to TAG_TO_TRACK.", None>>)
    /\ pc' = "debounce"
    /\ UNCHANGED <<last_uid, uid, track, calls, samples, trackMap>>

\* else: print("Playing track", track); dfplayer.play_track(track)
Play ==
    /\ pc = "lookup"
    /\ track # None
    /\ LET io == play_track_io(track[1])
       IN  /\ trace' = Append(trace, <<"print", "Playing track", track[1]>>)
                         \o io \o (IF Raised(io) THEN FatalError(io) ELSE << >>)
           /\ pc' = IF Raised(io) THEN "fatal" ELSE "debounce"
    /\ calls' = Append(calls, <<"play_track", track[1]>>)
    /\ UNCHANGED <<last_uid, uid, track, samples, trackMap>>

\* time.sleep(0.3) at the end of the loop body
Debounce ==
    /\ pc = "debounce"
    /\ trace' = Append(trace, <<"sleep", DEBOUNCE_MS>>)
    /\ pc' = "poll"
    /\ UNCHANGED <<last_uid, uid, track, calls, samples, trackMap>>

Next ==
    \/ init_pn532
    \/ init_dfplayer
    \/ Poll
    \/ NoCard
    \/ SameCard
    \/ NewCard
    \/ NoMapping
    \/ Play
    \/ Debounce

Spec == Init /\ [][Next]_vars

FairSpec == Spec /\ WF_vars(Next)

----------------------------------------------------------------------------
(* The same program with collaborators that can fail: a poll of the reader *)
(* or a write to the UART may raise.  main() has no handler, so the        *)
(* exception leaves the loop and reaches the handler around main().        *)

\* Variant: the loop catches the reader's exception and polls again.
PollFaultRetry ==
    /\ pc = "poll"
    /\ Len(samples) < MaxPolls
    /\ trace' = Append(trace, <<"raise", "read_passive_target">>)
    /\ samples' = Append(samples, None)
    /\ pc' = "poll"
    /\ UNCHANGED <<last_uid, uid, track, calls, trackMap>>

\* pn532.read_passive_target(timeout=0.5) raises
PollFault ==
    /\ pc = "poll"
    /\ LET io == << <<"raise", "read_passive_target">> >>
       IN  trace' = trace \o io \o FatalError(io)
    /\ pc' = "fatal"
    /\ UNCHANGED <<last_uid, uid, track, calls, samples, trackMap>>

\* self.uart.write(frame) raises inside dfplayer.play_track(track)
WriteFault ==
    /\ pc = "lookup"
    /\ track # None
    /\ LET io == << <<"raise", "uart.write">> >>
       IN  trace' = Append(trace, <<"print", "Playing track", track[1]>>)
                      \o io \o FatalError(io)
    /\ calls' = Append(calls, <<"play_track", track[1]>>)
    /\ pc' = "fatal"
    /\ UNCHANGED <<last_uid, uid, track, samples, trackMap>>

\* self.uart.write(frame) raises inside player.reset() or, after a reset
\* that went through, inside player.set_volume(DEFAULT_VOLUME)
init_dfplayerFault ==
    /\ pc = "init_dfplayer"
    /\ \E failing \in {"reset", "set_volume"} :
         LET before == IF failing = "reset" THEN << >> ELSE reset_io
             io     == before \o << <<"raise", "uart.write">> >>
         IN  /\ trace' = trace \o
                  << <<"print", "Initializing DFPlayer Mini over UART...", None>>,
                     <<"sleep", BOOT_DELAY_MS>> >>
                  \o io \o FatalError(io)
             /\ calls' = calls \o << <<"reset", 0>> >> \o
                  (IF failing = "reset" THEN << >>
                   ELSE << <<"set_volume", DEFAULT_VOLUME>> >>)
    /\ pc' = "fatal"
    /\ UNCHANGED <<last_uid, uid, track, samples, trackMap>>

NextFault ==
    \/ init_pn532
    \/ init_dfplayer
    \/ init_dfplayerFault
    \/ Poll
    \/ PollFault
    \/ NoCard
    \/ SameCard
    \/ NewCard
    \/ NoMapping
    \/ Play
    \/ WriteFault
    \/ Debounce

SpecFault == Init /\ [][NextFault]_vars

----------------------------------------------------------------------------
(* The DFPlayerMini driver exercised on its own: any method, any argument *)

LevelInputs == (-5) .. MaxLevelInput

TrackInputs == ((-2) .. MaxTrackInput) \cup {255, 256, 2999, 65535, 65536, 65539}

InitDriver ==
    /\ pc = "driver"
    /\ last_uid = None
    /\ uid = None
    /\ track = None
    /\ trace = << >>
    /\ calls = << >>
    /\ samples = << >>
    /\ trackMap = EmptyMap

CallReset ==
    /\ pc = "driver"
    /\ Len(calls) < MaxCalls
    /\ trace' = trace \o reset_io
    /\ calls' = Append(calls, <<"reset", 0>>)
    /\ UNCHANGED <<pc, last_uid, uid, track, samples, trackMap>>

CallSetVolume ==
    /\ pc = "driver"
    /\ Len(calls) < MaxCalls
    /\ \E level \in LevelInputs :
         /\ trace' = trace \o set_volume_io(level)
         /\ calls' = Append(calls, <<"set_volume", level>>)
    /\ UNCHANGED <<pc, last_uid, uid, track, samples, trackMap>>

CallPlayTrack ==
    /\ pc = "driver"
    /\ Len(calls) < MaxCalls
    /\ \E track_number \in TrackInputs :
         /\ trace' = trace \o play_track_io(track_number)
         /\ calls' = Append(calls, <<"play_track", track_number>>)
    /\ UNCHANGED <<pc, last_uid, uid, track, samples, trackMap>>

NextDriver ==
    \/ CallReset
    \/ CallSetVolume
    \/ CallPlayTrack

SpecDriver == InitDriver /\ [][NextDriver]_vars

----------------------------------------------------------------------------
(* Properties of the frames the driver writes *)

CommandCode(method) ==
    IF method = "reset" THEN 12
    ELSE IF method = "set_volume" THEN 6
    ELSE 3

Min2(a, b) == IF a <= b THEN a ELSE b

Max2(a, b) == IF a >= b THEN a ELSE b

\* The parameter a call is meant to carry: 0 for reset, the level brought
\* into 0..30 for set_volume, the track raised to at least 1 for play_track.
EffectiveParam(call) ==
    IF call[1] = "reset" THEN 0
    ELSE IF call[1] = "set_volume" THEN Min2(Max2(call[2], 0), 30)
    ELSE Max2(call[2], 1)

PayloadSum(f) == f[2] + f[3] + f[4] + f[5] + f[6] + f[7]

\* C3: in every frame written by reset, set_volume and play_track, the six
\* payload bytes (version, length, command, feedback, parameter high and
\* low) plus the 16-bit checksum carried in bytes 8 and 9 (high * 256 + low)
\* sum to 0 modulo 65536.
C3_ChecksumSumsToZero ==
    \A i \in 1 .. Len(Uart) :
        (PayloadSum(Uart[i]) + Uart[i][8] * 256 + Uart[i][9]) % 65536 = 0

C3_Witness ==
    /\ Len(calls) = 2
    /\ calls[1] = <<"set_volume", 30>>
    /\ calls[2] = <<"play_track", 2999>>
    /\ Len(Uart) = 2
    /\ Uart[2][6] = 11 /\ Uart[2][7] = 183

\* C4: every call writes exactly one frame of 10 bytes: 0x7E, 0xFF, 0x06,
\* the command code (0x0C reset, 0x06 set_volume, 0x03 play_track), 0x00,
\* the parameter's high byte then low byte, the checksum's high byte then
\* low byte, 0xEF; reset carries parameter 0.
C4_WireFormat ==
    /\ Len(Uart) = Len(calls)
    /\ \A i \in 1 .. Len(Uart) :
         LET f == Uart[i]
             p == EffectiveParam(calls[i])
         IN  /\ Len(f) = 10
             /\ f[1] = 126
             /\ f[2] = 255
             /\ f[3] = 6
             /\ f[4] = CommandCode(calls[i][1])
             /\ f[5] = 0
             /\ f[6] \in 0 .. 255 /\ f[7] \in 0 .. 255
             /\ f[6] * 256 + f[7] = p % 65536
             /\ f[8] \in 0 .. 255 /\ f[9] \in 0 .. 255
             /\ f[8] * 256 + f[9] = 65536 - PayloadSum(f)
             /\ f[10] = 239
             /\ (calls[i][1] = "reset" => f[6] = 0 /\ f[7] = 0)

C4_Witness ==
    /\ Len(calls) = 2
    /\ calls[1] = <<"reset", 0>>
    /\ calls[2] = <<"play_track", 256>>
    /\ Uart[1] = <<126, 255, 6, 12, 0, 0, 0, 254, 239, 239>>
    /\ Uart[2] = <<126, 255, 6, 3, 0, 1, 0, 254, 247, 239>>

\* C5: set_volume(level) carries the same parameter bytes as
\* set_volume(min(max(level, 0), 30)), and play_track(track_number) with
\* track_number < 1 writes the same frame as play_track(1).
C5_Clamping ==
    \A i \in 1 .. Len(calls) :
        /\ calls[i][1] = "set_volume" =>
             LET g == set_volume_io(Min2(Max2(calls[i][2], 0), 30))[1][2]
             IN  /\ Uart[i][6] = g[6]
                 /\ Uart[i][7] = g[7]
                 /\ (calls[i][2] < 0 => Uart[i][6] = 0 /\ Uart[i][7] = 0)
                 /\ (calls[i][2] > 30 => Uart[i][6] = 0 /\ Uart[i][7] = 30)
        /\ (calls[i][1] = "play_track" /\ calls[i][2] < 1) =>
             Uart[i] = play_track_io(1)[1][2]

C5_Witness ==
    /\ Len(calls) = 2
    /\ calls[1] = <<"set_volume", 33>>
    /\ calls[2] = <<"play_track", -2>>
    /\ Uart[1][7] = 30
    /\ Uart[2][7] = 1

----------------------------------------------------------------------------
(* Observations on the polling loop *)

\* The part of the I/O trace produced by the loop: from the first poll on.
RECURSIVE FromFirstPoll(_)
FromFirstPoll(t) ==
    IF t = << >> THEN << >>
    ELSE IF IsPoll(Head(t)) THEN t
         ELSE FromFirstPoll(Tail(t))

LoopTrace == FromFirstPoll(trace)

LoopFrames == FramesOf(LoopTrace)

IsArrival(e) == IsPrint(e) /\ e[2] = "Tag detected, UID ="

IsRemoval(e) == IsPrint(e) /\ e[2] = "Tag removed."

TagArrived(id) == <<"TagArrived", uid_bytes_to_hex(id)>>

TagRemoved == <<"TagRemoved">>

\* The debouncer events a piece of trace shows, in order.
RECURSIVE EventsOf(_)
EventsOf(t) ==
    IF t = << >> THEN << >>
    ELSE IF IsArrival(Head(t))
         THEN << <<"TagArrived", Head(t)[3]>> >> \o EventsOf(Tail(t))
         ELSE IF IsRemoval(Head(t))
              THEN <<TagRemoved>> \o EventsOf(Tail(t))
              ELSE EventsOf(Tail(t))

LoopEvents == EventsOf(LoopTrace)

\* What one step of the program appended to the trace.
Added == SubSeq(trace', Len(trace) + 1, Len(trace'))

IsArrivalEvent(ev) == ev[1] = "TagArrived"

Arrivals(evs) == SelectSeq(evs, IsArrivalEvent)

\* Arrivals the debounce rule prescribes for a sample sequence: a sample
\* Some(id) fires unless the state before it is Present(id); the state
\* after a sample is Idle for None and Present(id) for Some(id).
RECURSIVE RefArrivals(_, _)
RefArrivals(state, ss) ==
    IF ss = << >> THEN << >>
    ELSE LET s == Head(ss)
         IN  (IF s # None /\ s # state THEN <<TagArrived(s[1])>> ELSE << >>)
             \o RefArrivals(s, Tail(ss))

\* C1: starting from Idle, a poll emits TagArrived(id) exactly when its
\* sample is Some(id) and the debouncer state before the poll is not
\* Present(id); three consecutive samples Some(A) give exactly one
\* TagArrived(A) and nothing else, and samples that are all None give no
\* event.
C1_Debounce ==
    /\ [][Arrivals(EventsOf(Added)) =
            IF pc = "sampled" /\ uid # None /\ last_uid # uid
            THEN <<TagArrived(uid[1])>>
            ELSE << >>]_vars
    /\ [](pc = "poll" => Arrivals(LoopEvents) = RefArrivals(None, samples))
    /\ [](\A id \in Uids :
            (pc = "poll" /\ samples = <<Some(id), Some(id), Some(id)>>)
                => LoopEvents = <<TagArrived(id)>>)
    /\ []((pc = "poll" /\ \A i \in 1 .. Len(samples) : samples[i] = None)
            => LoopEvents = << >>)

C1_Witness ==
    /\ pc = "poll"
    /\ samples = <<Some(UidA), Some(UidA), Some(UidA)>>
    /\ LoopEvents = << <<"TagArrived", "04AABBCCDD11">> >>

\* C2: with 04AABBCCDD11 mapped to track 3, the poll sequence
\* None, Some(id), Some(id), None makes the loop transmit exactly one frame,
\* 7E FF 06 03 00 00 03 FE F5 EF.
C2_EndToEnd ==
    (/\ pc = "poll"
     /\ "04AABBCCDD11" \in DOMAIN trackMap
     /\ trackMap["04AABBCCDD11"] = 3
     /\ samples = <<None, Some(UidA), Some(UidA), None>>)
        => LoopFrames = << <<126, 255, 6, 3, 0, 0, 3, 254, 245, 239>> >>

C2_Witness ==
    /\ pc = "poll"
    /\ trackMap = MapA3
    /\ samples = <<None, Some(UidA), Some(UidA), None>>
    /\ Len(LoopFrames) = 1
    /\ LoopEvents = << <<"TagArrived", "04AABBCCDD11">>, <<"TagRemoved">> >>

----------------------------------------------------------------------------
(* Poll cycles: a cycle is a poll entry and everything up to the next one *)

RECURSIVE SplitCycles(_, _)
SplitCycles(t, acc) ==
    IF t = << >> THEN acc
    ELSE IF IsPoll(Head(t))
         THEN SplitCycles(Tail(t), Append(acc, <<Head(t)>>))
         ELSE IF acc = << >>
              THEN SplitCycles(Tail(t), acc)
              ELSE SplitCycles(Tail(t),
                     [acc EXCEPT ![Len(acc)] = Append(@, Head(t))])

Cycles == SplitCycles(trace, << >>)

\* Cycle k has run to the point where the next poll is (about to be) issued.
Complete(cs, k) == k < Len(cs) \/ pc = "poll"

Last(c) == c[Len(c)]

IsDebouncePause(e) == IsSleep(e) /\ e[2] = DEBOUNCE_MS

HasArrival(c) == \E j \in 1 .. Len(c) : IsArrival(c[j])

HasRemoval(c) == \E j \in 1 .. Len(c) : IsRemoval(c[j])

HasMappedArrival(c) ==
    \E j \in 1 .. Len(c) : IsArrival(c[j]) /\ c[j][3] \in DOMAIN trackMap

Removals(evs) == SelectSeq(evs, LAMBDA ev : ev[1] = "TagRemoved")

\* C6: a poll emits TagRemoved exactly when its sample is None and the
\* state before it is Present(last), and the state after it is Idle;
\* Some(A), None gives TagArrived(A) then TagRemoved, and None in Idle
\* emits nothing.
C6_Removal ==
    /\ [][/\ Removals(EventsOf(Added)) =
               IF pc = "sampled" /\ uid = None /\ last_uid # None
               THEN <<TagRemoved>>
               ELSE << >>
          /\ (pc = "sampled" /\ uid = None) => last_uid' = None]_vars
    /\ [](\A id \in Uids :
            (pc = "poll" /\ samples = <<Some(id), None>>)
                => LoopEvents = <<TagArrived(id), TagRemoved>>)
    /\ []((pc = "poll" /\ samples = <<None>>) => LoopEvents = << >>)

C6_Witness ==
    /\ pc = "poll"
    /\ samples = <<Some(UidB), None>>
    /\ last_uid = None
    /\ LoopEvents = << <<"TagArrived", "04332211FF55">>, <<"TagRemoved">> >>

\* C7: in Present(A) a sample Some(B) with B # A emits TagArrived(B), moves
\* the state to Present(B) and emits no TagRemoved in that poll cycle;
\* Some(A), Some(B) gives exactly TagArrived(A) then TagArrived(B).
C7_Swap ==
    /\ [][(pc = "sampled" /\ uid # None /\ last_uid # None /\ uid # last_uid)
            => /\ EventsOf(Added) = <<TagArrived(uid[1])>>
               /\ last_uid' = uid]_vars
    /\ [](LET cs == Cycles
          IN  \A k \in 2 .. Len(cs) :
                (/\ Complete(cs, k)
                 /\ samples[k] # None
                 /\ samples[k - 1] # None
                 /\ samples[k - 1] # samples[k])
                    => EventsOf(cs[k]) = <<TagArrived(samples[k][1])>>)
    /\ [](\A a, b \in Uids :
            (pc = "poll" /\ a # b /\ samples = <<Some(a), Some(b)>>)
                => LoopEvents = <<TagArrived(a), TagArrived(b)>>)

C7_Witness ==
    /\ pc = "poll"
    /\ samples = <<Some(UidA), Some(UidB)>>
    /\ last_uid = Some(UidB)
    /\ LoopEvents = << <<"TagArrived", "04AABBCCDD11">>,
                       <<"TagArrived", "04332211FF55">> >>

\* C8 as stated: every poll cycle, whatever it emitted, ends with the
\* fixed debounce pause before the next poll is issued.
C8_PauseAfterEveryCycle ==
    LET cs == Cycles
    IN  \A k \in 1 .. Len(cs) :
          Complete(cs, k) => IsDebouncePause(Last(cs[k]))

DebouncePauses(c) == SelectSeq(c, IsDebouncePause)

\* C8 amended: the loop applies the fixed debounce pause exactly in the
\* poll cycles that emit TagArrived (mapped or unmapped tag), once, as the
\* last step before the next poll; a cycle with a None sample (with or
\* without TagRemoved) or with the unchanged tag goes to the next poll
\* without the pause.
C8_PauseOnlyAfterArrival ==
    LET cs == Cycles
    IN  \A k \in 1 .. Len(cs) :
          Complete(cs, k) =>
            IF HasArrival(cs[k])
            THEN /\ Len(DebouncePauses(cs[k])) = 1
                 /\ IsDebouncePause(Last(cs[k]))
            ELSE /\ Len(DebouncePauses(cs[k])) = 0
                 /\ Len(SelectSeq(cs[k], IsSleep)) = 0

C8_Witness ==
    /\ pc = "poll"
    /\ trackMap = MapA3
    /\ samples = <<Some(UidC), Some(UidC), Some(UidA), None>>
    /\ Len(DebouncePauses(LoopTrace)) = 2
    /\ HasRemoval(Last(Cycles))

\* Frames the control loop is to transmit for a sample sequence, in poll
\* order: one PlayTrack frame per arrival of a tag that has a track.
RECURSIVE RefFrameParams(_, _)
RefFrameParams(state, ss) ==
    IF ss = << >> THEN << >>
    ELSE LET s == Head(ss)
             key == IF s = None THEN "" ELSE uid_bytes_to_hex(s[1])
         IN  (IF s # None /\ s # state /\ key \in DOMAIN trackMap
              THEN <<Max2(trackMap[key], 1)>> ELSE << >>)
             \o RefFrameParams(s, Tail(ss))

\* C9: a poll cycle writes exactly one frame if it emits TagArrived(id)
\* with id in the track map and no frame otherwise (None sample, unchanged
\* tag, TagRemoved, unmapped tag); the frame is written before the next
\* poll, so the frames on the transport follow the poll order.
C9_OneTransmitPerMappedArrival ==
    /\ LET cs == Cycles
       IN  \A k \in 1 .. Len(cs) :
             Complete(cs, k) =>
               /\ Len(FramesOf(cs[k])) =
                     IF HasMappedArrival(cs[k]) THEN 1 ELSE 0
               /\ (samples[k] = None => FramesOf(cs[k]) = << >>)
               /\ (HasRemoval(cs[k]) => FramesOf(cs[k]) = << >>)
    /\ pc = "poll" =>
         LET fs  == LoopFrames
             ref == RefFrameParams(None, samples)
         IN  /\ Len(fs) = Len(ref)
             /\ \A k \in 1 .. Len(fs) :
                  /\ fs[k][4] = 3
                  /\ fs[k][6] * 256 + fs[k][7] = ref[k]

C9_Witness ==
    /\ pc = "poll"
    /\ trackMap = MapExample
    /\ samples = <<Some(UidB), Some(UidB), Some(UidC), Some(UidA)>>
    /\ Len(LoopFrames) = 2
    /\ LoopFrames[1][7] = 2
    /\ LoopFrames[2][7] = 1

LoopPcs == {"poll", "sampled", "lookup", "debounce"}

\* C10: when TagArrived(id) fires for an id with no entry in the track
\* map, no frame is written, the loop does not halt, and the next poll is
\* reached and processed by the same rules.
C10_UnmappedTag ==
    /\ [][(pc = "lookup" /\ track = None)
            => (FramesOf(Added) = << >> /\ pc' = "debounce")]_vars
    /\ [][(pc \in LoopPcs) => (pc' \in LoopPcs)]_vars
    /\ [](LET cs == Cycles
          IN  \A k \in 1 .. Len(cs) :
                (Complete(cs, k) /\ HasArrival(cs[k]) /\ ~HasMappedArrival(cs[k]))
                    => FramesOf(cs[k]) = << >>)
    /\ (pc = "lookup" /\ track = None) ~> (pc = "poll")
    /\ [](pc = "poll" => Arrivals(LoopEvents) = RefArrivals(None, samples))

C10_Witness ==
    /\ pc = "poll"
    /\ trackMap = MapA3
    /\ samples = <<Some(UidC), Some(UidA)>>
    /\ LoopEvents = << <<"TagArrived", "DEADBEEF">>,
                       <<"TagArrived", "04AABBCCDD11">> >>
    /\ Len(LoopFrames) = 1

----------------------------------------------------------------------------
(* Timing, totality and parameter range of the driver *)

\* Settle delay each command needs, in milliseconds.
SettleMs(cmd) ==
    IF cmd = 12 THEN 1500
    ELSE IF cmd = 6 THEN 100
    ELSE 0

\* Time slept between trace positions i and j (exclusive), in milliseconds.
RECURSIVE SleptBetween(_, _)
SleptBetween(i, j) ==
    IF i + 1 >= j THEN 0
    ELSE (IF IsSleep(trace[i + 1]) THEN trace[i + 1][2] ELSE 0)
         + SleptBetween(i + 1, j)

\* C11: after a Reset frame no other frame is written before at least
\* 1.5 s have been slept, after a SetVolume frame not before 0.1 s;
\* play_track returns right after its write, without any sleep.
C11_SettleDelay ==
    \A i \in 1 .. Len(trace) :
        IsWrite(trace[i]) =>
            /\ \A j \in (i + 1) .. Len(trace) :
                 IsWrite(trace[j]) =>
                     SleptBetween(i, j) >= SettleMs(trace[i][2][4])
            /\ (trace[i][2][4] = 3 /\ i < Len(trace))
                    => ~IsSleep(trace[i + 1])
            /\ (trace[i][2][4] # 3 /\ i < Len(trace))
                    => (IsSleep(trace[i + 1])
                        /\ trace[i + 1][2] = SettleMs(trace[i][2][4]))

C11_Witness ==
    /\ calls = << <<"reset", 0>>, <<"play_track", 2>> >>
    /\ Len(trace) = 3
    /\ IsWrite(trace[1]) /\ IsSleep(trace[2]) /\ IsWrite(trace[3])
    /\ trace[2][2] = 1500

IsRaise(e) == e[1] = "raise"

\* C13: reset, set_volume and play_track never fail, for any integer
\* argument: all ten bytes of the frame are in 0..255, nothing is raised,
\* and each call writes exactly one frame.
C13_Totality ==
    /\ \A i \in 1 .. Len(trace) : ~IsRaise(trace[i])
    /\ Len(Uart) = Len(calls)
    /\ \A i \in 1 .. Len(Uart) :
         /\ Len(Uart[i]) = 10
         /\ \A b \in 1 .. 10 : Uart[i][b] >= 0 /\ Uart[i][b] <= 255

C13_Witness ==
    /\ calls = << <<"play_track", 65539>>, <<"set_volume", -5>> >>
    /\ Len(Uart) = 2
    /\ Uart[1][6] = 0 /\ Uart[1][7] = 3
    /\ Uart[2][6] = 0 /\ Uart[2][7] = 0

\* C14 as stated: for every integer track_number the 16-bit parameter of
\* the frame play_track writes equals max(track_number, 1) and is never 0,
\* also above 65535.
C14_ParamIsClampedTrack ==
    \A i \in 1 .. Len(calls) :
        calls[i][1] = "play_track" =>
            /\ Uart[i][6] * 256 + Uart[i][7] = Max2(calls[i][2], 1)
            /\ Uart[i][6] * 256 + Uart[i][7] # 0

\* C14 amended: the parameter is max(track_number, 1) reduced modulo 65536;
\* it equals max(track_number, 1), and is not 0, for every track_number up
\* to 65535, and it is 0 when max(track_number, 1) is a multiple of 65536.
C14_ParamIsClampedTrackMod65536 ==
    \A i \in 1 .. Len(calls) :
        calls[i][1] = "play_track" =>
            LET p == Uart[i][6] * 256 + Uart[i][7]
                t == calls[i][2]
            IN  /\ p = Max2(t, 1) % 65536
                /\ (t <= 65535 => p = Max2(t, 1) /\ p # 0)
                /\ (Max2(t, 1) % 65536 = 0 => p = 0)

C14_Witness ==
    /\ calls = << <<"play_track", 65536>>, <<"play_track", 0>> >>
    /\ Uart[1][6] = 0 /\ Uart[1][7] = 0
    /\ Uart[2][6] = 0 /\ Uart[2][7] = 1

----------------------------------------------------------------------------
(* Faults of the collaborators *)

\* C12: when a poll of the reader or a write to the UART raises, nothing
\* is retried: the exception leaves the main loop, the program ends, and
\* no poll is taken and no frame is written after the fault.
C12_FaultPropagation ==
    /\ [](\A i \in 1 .. Len(trace) :
            IsRaise(trace[i]) =>
                /\ pc = "fatal"
                /\ \A j \in (i + 1) .. Len(trace) :
                     ~IsPoll(trace[j]) /\ ~IsWrite(trace[j]) /\ ~IsRaise(trace[j]))
    /\ [][pc # "fatal"]_vars

C12_Witness ==
    /\ pc = "fatal"
    /\ trackMap = MapA3
    /\ samples = <<Some(UidA), None>>
    /\ Len(LoopFrames) = 1
    /\ IsRaise(trace[Len(trace) - 1])
    /\ trace[Len(trace) - 1][2] = "read_passive_target"

----------------------------------------------------------------------------
(* Further properties of the polling loop *)

KeyOf(s) == uid_bytes_to_hex(s[1])

IsMapped(s) == s # None /\ KeyOf(s) \in DOMAIN trackMap

PlayFrame(f) == f[4] = 3

\* C15: after a None sample has followed Present(A), the next sample
\* Some(A) fires TagArrived(A) again; for a mapped tag the samples
\* Some(A), None, Some(A) write two PlayTrack frames.
C15_RetriggerAfterRemoval ==
    /\ LET cs == Cycles
       IN  \A k \in 2 .. Len(cs) :
             (Complete(cs, k) /\ samples[k - 1] = None /\ samples[k] # None)
                => /\ EventsOf(cs[k]) = <<TagArrived(samples[k][1])>>
                   /\ (IsMapped(samples[k]) => Len(FramesOf(cs[k])) = 1)
    /\ \A id \in Uids :
         (pc = "poll" /\ samples = <<Some(id), None, Some(id)>>)
            => /\ LoopEvents = <<TagArrived(id), TagRemoved, TagArrived(id)>>
               /\ (IsMapped(Some(id)) =>
                     /\ Len(LoopFrames) = 2
                     /\ PlayFrame(LoopFrames[1])
                     /\ LoopFrames[2] = LoopFrames[1])

C15_Witness ==
    /\ pc = "poll"
    /\ trackMap = MapA3
    /\ samples = <<Some(UidA), None, Some(UidA)>>
    /\ Len(LoopFrames) = 2
    /\ LoopFrames[2][7] = 3

\* C16: at the end of every poll cycle last_uid is None if the cycle's
\* sample was None and the sampled identifier, byte for byte, otherwise;
\* only the handling of the poll result changes it, not the lookup, the
\* transmit or the pause.
C16_StateTracksLastSample ==
    /\ []((pc = "poll" /\ samples # << >>) => last_uid = samples[Len(samples)])
    /\ [][(pc # "sampled") => (last_uid' = last_uid)]_vars

C16_Witness ==
    /\ pc = "poll"
    /\ trackMap = MapA3
    /\ samples = <<Some(UidA), Some(UidC), None, Some(UidA)>>
    /\ last_uid = <<UidA>>
    /\ Len(LoopFrames) = 2

\* C17: on every run that reaches the loop the first frame is Reset
\* (0x0C, parameter 0), the second SetVolume (0x06) with volume 20, and
\* every later frame PlayTrack (0x03); no poll is taken and no PlayTrack is
\* written before the two initialization frames.
C17_StartupOrdering ==
    /\ Len(Uart) >= 1 =>
         Uart[1][4] = 12 /\ Uart[1][6] = 0 /\ Uart[1][7] = 0
    /\ Len(Uart) >= 2 =>
         Uart[2][4] = 6 /\ Uart[2][6] = 0 /\ Uart[2][7] = 20
    /\ \A k \in 3 .. Len(Uart) : Uart[k][4] = 3
    /\ pc \in LoopPcs => Len(Uart) >= 2
    /\ samples # << >> => Len(Uart) - Len(LoopFrames) = 2

C17_Witness ==
    /\ pc = "poll"
    /\ trackMap = MapExample
    /\ samples = <<Some(UidA), Some(UidB)>>
    /\ Len(Uart) = 4
    /\ Uart[3][7] = 1 /\ Uart[4][7] = 2

IsNoMappingNotice(e) ==
    IsPrint(e) /\ e[2] = "No track mapped for this UID yet. Add it to TAG_TO_TRACK."

\* C18: the state moves to Present(id) before the lookup, so an unmapped
\* tag held over consecutive polls gets the "no mapping" notice once per
\* placement, and its removal still emits TagRemoved.
C18_UnmappedDebounced ==
    /\ pc = "lookup" => last_uid = uid
    /\ LET cs == Cycles
       IN  \A k \in 1 .. Len(cs) :
             Complete(cs, k) =>
               /\ Len(SelectSeq(cs[k], IsNoMappingNotice)) =
                    IF /\ samples[k] # None
                       /\ ~IsMapped(samples[k])
                       /\ (k = 1 \/ samples[k - 1] # samples[k])
                    THEN 1 ELSE 0
               /\ (/\ k >= 2
                   /\ samples[k] = None
                   /\ samples[k - 1] # None
                   /\ ~IsMapped(samples[k - 1]))
                      => EventsOf(cs[k]) = <<TagRemoved>>
    /\ (pc = "poll" /\ ~IsMapped(Some(UidC))
          /\ samples = <<Some(UidC), Some(UidC), Some(UidC), None>>)
         => /\ Len(SelectSeq(trace, IsNoMappingNotice)) = 1
            /\ LoopEvents = <<TagArrived(UidC), TagRemoved>>

C18_Witness ==
    /\ pc = "poll"
    /\ trackMap = MapExample
    /\ samples = <<Some(UidC), Some(UidC), Some(UidC), None>>
    /\ Len(SelectSeq(trace, IsNoMappingNotice)) = 1
    /\ LoopEvents = << <<"TagArrived", "DEADBEEF">>, <<"TagRemoved">> >>
    /\ LoopFrames = << >>

\* C19: a tag counts as unmapped only when the lookup yields no entry; a
\* tag mapped to track 0 or to a negative track counts as mapped and its
\* arrival writes exactly one PlayTrack frame, with parameter 1.
C19_NonPositiveTrackPlaysOne ==
    LET cs == Cycles
    IN  \A k \in 1 .. Len(cs) :
          (/\ Complete(cs, k)
           /\ HasArrival(cs[k])
           /\ IsMapped(samples[k])
           /\ trackMap[KeyOf(samples[k])] < 1)
              => /\ FramesOf(cs[k]) = << <<126, 255, 6, 3, 0, 0, 1, 254, 247, 239>> >>
                 /\ SelectSeq(cs[k], IsNoMappingNotice) = << >>

C19_Witness ==
    /\ pc = "poll"
    /\ trackMap = MapLow
    /\ samples = <<Some(UidA), Some(UidB)>>
    /\ Len(LoopFrames) = 2
    /\ LoopFrames[1][7] = 1 /\ LoopFrames[2][7] = 1

====
